---- MODULE Spec2Model ----
(***************************************************************************)
(* Homomorphically evaluated lattice PRF (learning with rounding):         *)
(* key material, input encoder, homomorphic evaluator and decoder of       *)
(* src/src/lib.rs and the vector helpers of src/src/vec.rs.                *)
(*                                                                         *)
(* The FHE scheme, the seeded generator and the digest are libraries the   *)
(* crate calls.  They are modelled by what the crate relies on:            *)
(*   - a radix ciphertext of NUM_BLOCKS blocks of MessageBits bits carries *)
(*     a value modulo 2^(NUM_BLOCKS * MessageBits); it is a masked pair    *)
(*     (a, b) with b = a * secret + m, so two encryptions of one value     *)
(*     under different keys or nonces are different ciphertexts;           *)
(*   - the generator is a congruential generator over DrawBits-bit words   *)
(*     (the code draws 64-bit words);                                      *)
(*   - the digest is a multiplicative fold of the input bytes.             *)
(***************************************************************************)
EXTENDS Integers, Sequences, FiniteSets, TLC

VARIABLES pc, x, ck, sk, er, pk, h, v, y, chunks, out, fail, done, prev

vars == <<pc, x, ck, sk, er, pk, h, v, y, chunks, out, fail, done, prev>>

----------------------------------------------------------------------------
(* Bounds of the model. *)

\* inputs x are the substrings of the first MaxInputLen bytes of InputPattern
MaxInputLen == 3
\* client secret keys the keypair generation draws from
NumClientKeys == 2
\* initial states of the client key's encryption randomness
NumEncSeeds == 2
\* seeds the operating-system seeder hands to generate_prf_key
NumPrfSeeds == 2
\* width in bits of one word drawn from the generator
DrawBits == 16
\* longest row and key vector handed to vec_mul_vec on its own
MaxVecLen == 3

----------------------------------------------------------------------------
(* PRF and FHE parameters, lib.rs:13-25. *)

LATTICE_DIM == 8
LOG2Q == 12
LOG2P == 8
OUT_LEN == 16
\* FHE_PARAMS.message_modulus.0.ilog2() for PARAM_MESSAGE_2_CARRY_2_KS_PBS
MessageBits == 2
\* u8::BITS
U8_BITS == 8
\* u64::BITS
U64_BITS == 64

DivCeil(a, b) == (a + b - 1) \div b

RECURSIVE Pow2(_)
Pow2(n) == IF n = 0 THEN 1 ELSE 2 * Pow2(n - 1)

\* variant: one block more than LOG2Q needs
NUM_BLOCKS_Extra == LOG2Q \div MessageBits + 1

\* variant: LOG2Q divided by the message modulus, not by its logarithm
NUM_BLOCKS_NoLog == LOG2Q \div Pow2(MessageBits)

NUM_BLOCKS == LOG2Q \div MessageBits

Q_BYTES == DivCeil(LOG2Q, U8_BITS)

P_BYTES == DivCeil(LOG2P, U8_BITS)

\* const SIZE in generate_prf_key, encode and decrypt: 64-bit limbs of a value
SIZE == DivCeil(Q_BYTES, U64_BITS \div U8_BITS)

\* const NUM_ROWS in encode
NUM_ROWS == DivCeil(OUT_LEN, P_BYTES)

----------------------------------------------------------------------------
(* The seeded generator (RandomGenerator<ActivatedRandomGenerator>) and the *)
(* digest D.                                                                *)

WordMod == Pow2(DrawBits)

\* RandomGenerator::new(seed): a counter-mode generator, its state the seed
\* and the number of words drawn so far
NewGenerator(seed) == [seed |-> seed % WordMod, ctr |-> 0]

\* the word the generator of this seed gives at counter i
Block(seed, i) ==
    LET t == (31 * seed + 17 * i + 7) % 32768
    IN (t * t + 3 * t + seed) % WordMod

\* the next n words of generator g, in the order they are drawn: each is one
\* buffer of SIZE * 8 bytes filled by fill_slice_with_random_uniform and read
\* back little-endian by copy_from_le_byte_slice
Stream(g, n) == [i \in 1..n |-> Block(g.seed, g.ctr + i - 1)]

\* generator g after n words were drawn
Skip(g, n) == [g EXCEPT !.ctr = @ + n]

RECURSIVE Digest(_)
\* D::digest(x): a fold over the bytes of x; Digest(<<>>) is defined
Digest(bytes) == IF bytes = <<>> THEN 5381
                 ELSE (33 * Digest(SubSeq(bytes, 1, Len(bytes) - 1))
                       + bytes[Len(bytes)] + 1) % WordMod

----------------------------------------------------------------------------
(* The FHE scheme: radix ciphertexts and the operations the crate calls.    *)

\* values a radix ciphertext of NUM_BLOCKS blocks can carry
RadixMod == Pow2(NUM_BLOCKS * MessageBits)

BigInt(n) == [type |-> "BigInt", val |-> n]

Ciphertext(a, b) == [type |-> "RadixCiphertext", a |-> a, b |-> b]

\* RadixClientKey::encrypt with the nonce the key's encryption generator gave
Encrypt(k, nonce, m) ==
    Ciphertext(nonce % RadixMod, ((nonce % RadixMod) * k.secret + m) % RadixMod)

\* RadixClientKey::decrypt
Decrypt(k, c) == (c.b + RadixMod - ((c.a * k.secret) % RadixMod)) % RadixMod

\* ServerKey::create_trivial_radix(r, NUM_BLOCKS): r in the clear, no mask
CreateTrivialRadix(r) == Ciphertext(0, r % RadixMod)

\* the number a scalar operand stands for: a BigInt's value; a trivial
\* ciphertext holds its plaintext unmasked
ScalarValue(b) == IF b.type = "BigInt" THEN b.val ELSE b.b

\* variant: the mask is left unscaled
ScalarMulBodyOnly(c, b) == Ciphertext(c.a, (c.b * ScalarValue(b)) % RadixMod)

\* ServerKey::scalar_mul_parallelized
ScalarMul(c, b) == Ciphertext((c.a * ScalarValue(b)) % RadixMod,
                              (c.b * ScalarValue(b)) % RadixMod)

RECURSIVE SumFrom(_, _)
SumFrom(cts, i) == IF i = Len(cts) THEN cts[i]
                   ELSE LET r == SumFrom(cts, i + 1)
                        IN Ciphertext((cts[i].a + r.a) % RadixMod,
                                      (cts[i].b + r.b) % RadixMod)

\* ServerKey::unchecked_sum_ciphertexts_vec_parallelized: None on an empty vector
SumCiphertexts(cts) ==
    IF cts = <<>> THEN [some |-> FALSE, val |-> Ciphertext(0, 0)]
    ELSE [some |-> TRUE, val |-> SumFrom(cts, 1)]

\* ServerKey::scalar_right_shift_parallelized: a bootstrap under the server
\* key's bootstrapping key, which encrypts the client secret
ScalarRightShift(k, c, bits) ==
    LET m == (c.b + RadixMod - ((c.a * k.bsk) % RadixMod)) % RadixMod
    IN Ciphertext(c.a, (c.a * k.bsk + (m \div Pow2(bits))) % RadixMod)

----------------------------------------------------------------------------
(* lib.rs and vec.rs.  A call that panics returns panic |-> TRUE.           *)

Min(a, b) == IF a < b THEN a ELSE b

\* gen_keys_radix(PARAM_MESSAGE_2_CARRY_2_KS_PBS, NUM_BLOCKS)
generate_fhe_keys(secret) == [client |-> [secret |-> secret], server |-> [bsk |-> secret]]

\* bytes of the unused buffer generate_prf_key fills first
WarmupBytes == 32

generate_prf_key(seed) ==
    LET rng == Skip(NewGenerator(seed), WarmupBytes \div (SIZE * (U64_BITS \div U8_BITS)))
        words == Stream(rng, LATTICE_DIM)
    IN [j \in 1..LATTICE_DIM |-> CreateTrivialRadix(words[j])]

\* the generator seed encode derives from x
EncodeSeed(input) == Digest(input)

\* n rows of LATTICE_DIM words each, drawn from generator g row after row
Rows(g, n) == [i \in 1..n |-> Stream(Skip(g, (i - 1) * LATTICE_DIM), LATTICE_DIM)]

\* the body of encode from RandomGenerator::new(seed) on; nonce0 is the state
\* of the client key's encryption randomness
EncodeFromSeed(k, nonce0, seed) ==
    LET words  == Rows(NewGenerator(seed), NUM_ROWS)
        nonces == Rows(nonce0, NUM_ROWS)
    IN [i \in 1..NUM_ROWS |->
          [j \in 1..LATTICE_DIM |-> Encrypt(k, nonces[i][j], words[i][j])]]

\* variant: the client key enters the seed
EncodeKeyedSeed(k, nonce0, input) == EncodeFromSeed(k, nonce0, EncodeSeed(input) + k.secret)

encode(k, nonce0, input) == EncodeFromSeed(k, nonce0, EncodeSeed(input))

\* the encryption randomness after encode
AfterEncode(nonce0) == Skip(nonce0, NUM_ROWS * LATTICE_DIM)

\* variant: operands of different lengths are refused
vec_mul_vec_Strict(m, vec) ==
    LET prods == [j \in 1..Len(m) |-> ScalarMul(m[j], vec[j])]
        s == SumCiphertexts(prods)
    IN IF Len(m) # Len(vec) THEN [panic |-> TRUE, val |-> Ciphertext(0, 0)]
       ELSE [panic |-> ~s.some, val |-> s.val]

vec_mul_vec(m, vec) ==
    LET n == Min(Len(m), Len(vec))
        prods == [j \in 1..n |-> ScalarMul(m[j], vec[j])]
        s == SumCiphertexts(prods)
    IN [panic |-> ~s.some, val |-> s.val]

mat_mul_vec(m, vec) ==
    LET rows == [i \in 1..Len(m) |-> vec_mul_vec(m[i], vec)]
    IN [panic |-> \E i \in 1..Len(m) : rows[i].panic,
        val |-> [i \in 1..Len(m) |-> rows[i].val]]

\* variant: a shift by LOG2P bits
ShiftBitsP == LOG2P

\* the shift eval applies
ShiftBits == LOG2Q - LOG2P

eval(fhe_key, prf_key, m) ==
    LET mv == mat_mul_vec(m, prf_key)
    IN [panic |-> mv.panic,
        v |-> mv.val,
        val |-> [i \in 1..Len(m) |-> ScalarRightShift(fhe_key, mv.val[i], ShiftBits)]]

RECURSIVE LeBytes(_, _)
\* copy_to_le_byte_slice into a buffer of len bytes
LeBytes(n, len) == IF len = 0 THEN <<>>
                   ELSE <<n % 256>> \o LeBytes(n \div 256, len - 1)

\* the closure of decrypt's flat_map: the bytes one ciphertext gives
DecryptChunk(k, cti) ==
    SubSeq(LeBytes(Decrypt(k, cti), SIZE * (U64_BITS \div U8_BITS)), 1, P_BYTES)

\* variant: the chunks joined last to first
RECURSIVE ConcatReversed(_, _)
ConcatReversed(parts, i) == IF i > Len(parts) THEN <<>>
                            ELSE ConcatReversed(parts, i + 1) \o parts[i]

RECURSIVE Concat(_, _)
Concat(parts, i) == IF i > Len(parts) THEN <<>>
                    ELSE parts[i] \o Concat(parts, i + 1)

\* variant: a short vector is padded with zeros, a long one cut
TryIntoZeroFill(bytes) ==
    [panic |-> FALSE,
     val |-> [i \in 1..OUT_LEN |-> IF i <= Len(bytes) THEN bytes[i] ELSE 0]]

\* v.try_into().unwrap() to [u8; OUT_LEN]
TryInto(bytes) == [panic |-> Len(bytes) # OUT_LEN, val |-> bytes]

decrypt(k, ct) ==
    TryInto(Concat([i \in 1..Len(ct) |-> DecryptChunk(k, ct[i])], 1))

----------------------------------------------------------------------------
(* The pipeline of tests::prf, run again and again on one input x:          *)
(* generate_fhe_keys, generate_prf_key, encode, eval, decrypt.  prev keeps  *)
(* the run before the current one.                                          *)

\* the input of tests::prf, repeated
InputPattern(i) == ((i - 1) % 3) + 1

Inputs == {[n \in 1..len |-> InputPattern(from + n - 1)] :
              from \in 1..MaxInputLen, len \in 0..MaxInputLen}

NoKey == [secret |-> 0]

NoServerKey == [bsk |-> 0]

NoRun == [valid |-> FALSE, ck |-> NoKey, pk |-> <<>>, h |-> <<>>, y |-> <<>>, out |-> <<>>]

Init ==
    /\ pc = "start"
    /\ x \in Inputs
    /\ ck = NoKey
    /\ sk = NoServerKey
    /\ er = NewGenerator(0)
    /\ pk = <<>>
    /\ h = <<>>
    /\ v = <<>>
    /\ y = <<>>
    /\ chunks = <<>>
    /\ out = <<>>
    /\ fail = "none"
    /\ done = {}
    /\ prev = NoRun

GenerateFheKeys ==
    /\ pc = "start"
    /\ \E secret \in 1..NumClientKeys, e \in 1..NumEncSeeds :
          LET keys == generate_fhe_keys(secret)
          IN /\ ck' = keys.client
             /\ sk' = keys.server
             /\ er' = NewGenerator(e)
    /\ pc' = "keyed"
    /\ UNCHANGED <<x, chunks, pk, h, v, y, out, fail, done, prev>>

GeneratePrfKey ==
    /\ pc = "keyed"
    /\ \E seed \in 1..NumPrfSeeds : pk' = generate_prf_key(seed)
    /\ pc' = "ready"
    /\ UNCHANGED <<x, chunks, ck, sk, er, h, v, y, out, fail, done, prev>>

Encode ==
    /\ pc = "ready" \/ (pc = "keyed" /\ pk # <<>>)
    /\ h' = encode(ck, er, x)
    /\ er' = AfterEncode(er)
    /\ pc' = "encoded"
    /\ UNCHANGED <<x, chunks, ck, sk, pk, v, y, out, fail, done, prev>>

Eval ==
    /\ pc = "encoded"
    /\ LET r == eval(sk, pk, h)
       IN IF r.panic
          THEN /\ fail' = "eval"
               /\ pc' = "failed"
               /\ UNCHANGED <<v, y>>
          ELSE /\ v' = r.v
               /\ y' = r.val
               /\ pc' = "evaluated"
               /\ UNCHANGED fail
    /\ UNCHANGED <<x, chunks, ck, sk, er, pk, h, out, done, prev>>

DecryptStep ==
    /\ pc = "evaluated"
    /\ LET r == decrypt(ck, y)
       IN IF r.panic
          THEN /\ fail' = "decrypt"
               /\ pc' = "failed"
               /\ UNCHANGED out
          ELSE /\ out' = r.val
               /\ pc' = "decrypted"
               /\ UNCHANGED fail
    /\ UNCHANGED <<x, chunks, ck, sk, er, pk, h, v, y, done, prev>>

\* the caller starts the pipeline again with the same PRF key at hand
NextRun ==
    /\ pc = "decrypted"
    /\ prev' = [valid |-> TRUE, ck |-> ck, pk |-> pk, h |-> h, y |-> y, out |-> out]
    /\ pc' = "start"
    /\ ck' = NoKey
    /\ sk' = NoServerKey
    /\ er' = NewGenerator(0)
    /\ h' = <<>>
    /\ v' = <<>>
    /\ y' = <<>>
    /\ out' = <<>>
    /\ UNCHANGED <<x, chunks, pk, fail, done>>

Next ==
    \/ GenerateFheKeys
    \/ GeneratePrfKey
    \/ Encode
    \/ Eval
    \/ DecryptStep
    \/ NextRun

Spec == Init /\ [][Next]_vars

----------------------------------------------------------------------------
(* eval and decrypt at the grain of their rayon workers: mat_mul_vec's      *)
(* m.par_iter().map().collect(), eval's v.par_iter().map().collect() and    *)
(* decrypt's ct.par_iter().flat_map().collect().  Workers finish in any     *)
(* order; each collect returns once all of them have.                       *)

\* the input the worker-level runs start from: x of tests::prf
ParInputs == {[n \in 1..3 |-> InputPattern(n)]}

\* a slot of a collected vector no worker has written yet
Pending == Ciphertext(0, 0)

\* variant: results placed in the order the workers finish
WriteIndexArrival(i, finished) == Cardinality(finished) + 1

\* the position collect gives the result of the worker of item i, when the
\* workers in finished are done
WriteIndex(i, finished) == i

AllRows == 1..NUM_ROWS

ParInit ==
    /\ pc = "par_mul"
    /\ x \in ParInputs
    /\ ck = generate_fhe_keys(1).client
    /\ sk = generate_fhe_keys(1).server
    /\ er = AfterEncode(NewGenerator(1))
    /\ pk = generate_prf_key(1)
    /\ h = encode(ck, NewGenerator(1), x)
    /\ v = [i \in AllRows |-> Pending]
    /\ y = [i \in AllRows |-> Pending]
    /\ chunks = [i \in AllRows |-> <<>>]
    /\ out = <<>>
    /\ fail = "none"
    /\ done = {}
    /\ prev = NoRun

\* the closure of mat_mul_vec for row i
MulWorker(i) ==
    /\ pc = "par_mul"
    /\ i \notin done
    /\ LET r == vec_mul_vec(h[i], pk)
       IN IF r.panic
          THEN /\ fail' = "eval"
               /\ pc' = "failed"
               /\ UNCHANGED <<v, done>>
          ELSE /\ v' = [v EXCEPT ![WriteIndex(i, done)] = r.val]
               /\ done' = done \cup {i}
               /\ UNCHANGED <<pc, fail>>
    /\ UNCHANGED <<x, ck, sk, er, pk, h, y, chunks, out, prev>>

\* mat_mul_vec's collect returns v to eval
MulJoin ==
    /\ pc = "par_mul"
    /\ done = AllRows
    /\ pc' = "par_shift"
    /\ done' = {}
    /\ UNCHANGED <<x, ck, sk, er, pk, h, v, y, chunks, out, fail, prev>>

\* the closure of eval for element i of v
ShiftWorker(i) ==
    /\ pc = "par_shift"
    /\ i \notin done
    /\ y' = [y EXCEPT ![WriteIndex(i, done)] = ScalarRightShift(sk, v[i], ShiftBits)]
    /\ done' = done \cup {i}
    /\ UNCHANGED <<pc, x, ck, sk, er, pk, h, v, chunks, out, fail, prev>>

\* eval returns and decrypt is called on its result
ShiftJoin ==
    /\ pc = "par_shift"
    /\ done = AllRows
    /\ pc' = "par_dec"
    /\ done' = {}
    /\ UNCHANGED <<x, ck, sk, er, pk, h, v, y, chunks, out, fail, prev>>

\* the closure of decrypt for ciphertext i
DecWorker(i) ==
    /\ pc = "par_dec"
    /\ i \notin done
    /\ chunks' = [chunks EXCEPT ![WriteIndex(i, done)] = DecryptChunk(ck, y[i])]
    /\ done' = done \cup {i}
    /\ UNCHANGED <<pc, x, ck, sk, er, pk, h, v, y, out, fail, prev>>

\* decrypt's collect and try_into
DecJoin ==
    /\ pc = "par_dec"
    /\ done = AllRows
    /\ LET r == TryInto(Concat(chunks, 1))
       IN IF r.panic
          THEN /\ fail' = "decrypt"
               /\ pc' = "failed"
               /\ UNCHANGED out
          ELSE /\ out' = r.val
               /\ pc' = "decrypted"
               /\ UNCHANGED fail
    /\ done' = {}
    /\ UNCHANGED <<x, ck, sk, er, pk, h, v, y, chunks, prev>>

ParNext ==
    \/ \E i \in AllRows : MulWorker(i)
    \/ MulJoin
    \/ \E i \in AllRows : ShiftWorker(i)
    \/ ShiftJoin
    \/ \E i \in AllRows : DecWorker(i)
    \/ DecJoin

SpecPar == ParInit /\ [][ParNext]_vars

----------------------------------------------------------------------------
(* The public functions called on their own, with arguments of any length: *)
(* vec_mul_vec on a row and a vector of BigInt scalars, eval on a matrix    *)
(* whose rows differ in length, decrypt on any vector of ciphertexts.       *)

\* lengths of the ciphertext vectors handed to decrypt
DecLens == {0} \cup ((NUM_ROWS - 1)..(NUM_ROWS + 1))

\* a row of len ciphertexts under k, its plaintexts and nonces drawn from
\* the generators of seed and seed + 1
ApiRow(k, seed, len) ==
    LET words  == Stream(NewGenerator(seed), len)
        nonces == Stream(NewGenerator(seed + 1), len)
    IN [j \in 1..len |-> Encrypt(k, nonces[j], words[j])]

ApiInit ==
    /\ pc = "api"
    /\ x \in ParInputs
    /\ \E secret \in 1..NumClientKeys :
          /\ ck = generate_fhe_keys(secret).client
          /\ sk = generate_fhe_keys(secret).server
    /\ er = NewGenerator(1)
    /\ \E seed \in 1..NumPrfSeeds, lenM \in 0..MaxVecLen, lenK \in 0..MaxVecLen, n \in DecLens :
          /\ h = <<ApiRow(ck, seed, lenM), ApiRow(ck, seed + 2, LATTICE_DIM)>>
          /\ pk = [j \in 1..lenK |-> BigInt(Stream(NewGenerator(seed + 6), lenK)[j])]
          /\ y = ApiRow(ck, seed + 4, n)
    /\ v = <<>>
    /\ chunks = <<>>
    /\ out = <<>>
    /\ fail = "none"
    /\ done = {}
    /\ prev = NoRun

\* vec_mul_vec(k, m, v) on the first row
ApiVecMulVec ==
    /\ pc = "api"
    /\ LET r == vec_mul_vec(h[1], pk)
       IN IF r.panic
          THEN /\ fail' = "vec_mul_vec"
               /\ pc' = "failed"
               /\ UNCHANGED v
          ELSE /\ v' = <<r.val>>
               /\ pc' = "vmv_done"
               /\ UNCHANGED fail
    /\ UNCHANGED <<x, ck, sk, er, pk, h, y, chunks, out, done, prev>>

\* encode(k, x), whose result replaces the caller's matrix
ApiEncode ==
    /\ pc = "api"
    /\ h' = encode(ck, er, x)
    /\ er' = AfterEncode(er)
    /\ pc' = "api_encoded"
    /\ UNCHANGED <<x, ck, sk, pk, v, y, chunks, out, fail, done, prev>>

\* eval(fhe_key, prf_key, h)
ApiEval ==
    /\ pc \in {"api", "api_encoded"}
    /\ LET r == eval(sk, pk, h)
       IN IF r.panic
          THEN /\ fail' = "eval"
               /\ pc' = "failed"
               /\ UNCHANGED <<v, y>>
          ELSE /\ v' = r.v
               /\ y' = r.val
               /\ pc' = "evaluated"
               /\ UNCHANGED fail
    /\ UNCHANGED <<x, ck, sk, er, pk, h, chunks, out, done, prev>>

\* decrypt(k, ct) on the caller's vector or on eval's result
ApiDecrypt ==
    /\ pc \in {"api", "evaluated"}
    /\ LET r == decrypt(ck, y)
       IN IF r.panic
          THEN /\ fail' = "decrypt"
               /\ pc' = "failed"
               /\ UNCHANGED out
          ELSE /\ out' = r.val
               /\ pc' = "decrypted"
               /\ UNCHANGED fail
    /\ UNCHANGED <<x, ck, sk, er, pk, h, v, y, chunks, done, prev>>

ApiNext ==
    \/ ApiVecMulVec
    \/ ApiEncode
    \/ ApiEval
    \/ ApiDecrypt

SpecApi == ApiInit /\ [][ApiNext]_vars

----------------------------------------------------------------------------
(* The same computation in the clear.                                       *)

\* the plaintexts of a row of ciphertexts under client key k
PlainRow(k, row) == [j \in 1..Len(row) |-> Decrypt(k, row[j])]

\* the plaintexts of a matrix of ciphertexts under client key k
PlainMatrix(k, m) == [i \in 1..Len(m) |-> PlainRow(k, m[i])]

RECURSIVE Dot(_, _, _)
\* the inner product of the first n entries of two vectors of numbers
Dot(row, s, n) == IF n = 0 THEN 0 ELSE Dot(row, s, n - 1) + row[n] * s[n]

\* the numbers the PRF key stands for
KeyValues(prf_key) == [j \in 1..Len(prf_key) |-> ScalarValue(prf_key[j])]

\* byte b (from 1, little-endian) of n
ByteOf(n, b) == (n \div Pow2(U8_BITS * (b - 1))) % Pow2(U8_BITS)

\* the inner product of row i of the current run and the key, computed
\* without encryption
ClearDot(i) == Dot(PlainRow(ck, h[i]), KeyValues(pk), LATTICE_DIM)

\* the same reduced modulo q and rounded
ClearRounded(i) == (ClearDot(i) % Pow2(LOG2Q)) \div Pow2(LOG2Q - LOG2P)

Evaluated == pc \in {"evaluated", "decrypted"}

Encoded == pc \in {"encoded", "evaluated", "decrypted"}

----------------------------------------------------------------------------
(* Claims checked under Spec.                                               *)

\* C1: for a fixed PRF key and a fixed input x (the empty input included),
\* every run of encode, eval, decrypt ends with the same OUT_LEN bytes,
\* whatever keypair and encryption randomness the run used.
C1_Determinism ==
    pc = "decrypted" =>
        /\ Len(out) = OUT_LEN
        /\ (prev.valid /\ prev.pk = pk) => out = prev.out

\* two finished runs on the empty input under one PRF key, with different
\* client keys and different ciphertexts
C1_Witness ==
    /\ pc = "decrypted"
    /\ x = <<>>
    /\ prev.valid
    /\ prev.pk = pk
    /\ prev.ck # ck
    /\ prev.h # h
    /\ prev.y # y

\* C2: the value decrypted from eval's i-th output is the inner product of
\* row i and the key computed in the clear, reduced modulo q = 2^LOG2Q and
\* shifted right by LOG2Q - LOG2P bits.
C2_RoundingCorrect ==
    Evaluated =>
        /\ Len(y) = Len(h)
        /\ \A i \in 1..Len(h) : Decrypt(ck, y[i]) = ClearRounded(i)

\* an evaluation whose rows round to different values, one of them with an
\* inner product that wraps modulo q
C2_Witness ==
    /\ Evaluated
    /\ \E i, j \in 1..Len(h) : ClearRounded(i) # ClearRounded(j)
    /\ \E i \in 1..Len(h) : ClearDot(i) >= Pow2(LOG2Q)

\* C3: each summed ciphertext carries a value in [0, q) before the shift and
\* each ciphertext eval returns carries a value in [0, p).
C3_Ranges ==
    Evaluated =>
        /\ \A i \in 1..Len(v) : Decrypt(ck, v[i]) \in 0..(Pow2(LOG2Q) - 1)
        /\ \A i \in 1..Len(y) : Decrypt(ck, y[i]) \in 0..(Pow2(LOG2P) - 1)

\* an evaluation with a summed value of at least p, which the shift brings
\* below p
C3_Witness ==
    /\ Evaluated
    /\ Len(v) = NUM_ROWS
    /\ \E i \in 1..Len(v) : Decrypt(ck, v[i]) >= Pow2(LOG2P)

\* C4: encode returns ceil(OUT_LEN / P_BYTES) rows of LATTICE_DIM columns
\* whose plaintexts depend on x alone: the same as in the run before, under
\* whatever client key and PRF key.
C4_EncodePure ==
    Encoded =>
        /\ Len(h) = DivCeil(OUT_LEN, P_BYTES)
        /\ \A i \in 1..Len(h) : Len(h[i]) = LATTICE_DIM
        /\ prev.valid => PlainMatrix(ck, h) = PlainMatrix(prev.ck, prev.h)

\* a second encoding of x under another client key and another PRF key, with
\* other ciphertexts
C4_Witness ==
    /\ pc = "encoded"
    /\ prev.valid
    /\ prev.ck # ck
    /\ prev.pk # pk
    /\ prev.h # h

\* C5: decrypt returns OUT_LEN bytes, chunk i of P_BYTES bytes being the
\* lowest P_BYTES little-endian bytes of the i-th decrypted value, which for
\* eval's output is the rounded value of row i.
C5_DecryptLayout ==
    pc = "decrypted" =>
        /\ Len(out) = OUT_LEN
        /\ \A i \in 1..Len(y) : \A b \in 1..P_BYTES :
              /\ out[(i - 1) * P_BYTES + b] = ByteOf(Decrypt(ck, y[i]), b)
              /\ out[(i - 1) * P_BYTES + b] = ByteOf(ClearRounded(i), b)

\* a decrypted output whose bytes are not all equal
C5_Witness ==
    /\ pc = "decrypted"
    /\ \E i, j \in 1..Len(out) : i < j /\ out[i] # out[j]

\* the words generate_prf_key drew from the seeder's seed
KeyWords(seed) ==
    Stream(Skip(NewGenerator(seed), WarmupBytes \div (SIZE * (U64_BITS \div U8_BITS))),
           LATTICE_DIM)

\* the words encode drew for input x
MatrixWords == Rows(NewGenerator(Digest(x)), NUM_ROWS)

\* C8: every coordinate of the PRF key and every entry of the encoded matrix
\* carries a value in [0, q) equal to the drawn word modulo 2^LOG2Q.
C8_ReducedModQ ==
    /\ pk # <<>> =>
          \E seed \in 1..NumPrfSeeds : \A j \in 1..LATTICE_DIM :
              /\ ScalarValue(pk[j]) \in 0..(Pow2(LOG2Q) - 1)
              /\ ScalarValue(pk[j]) = KeyWords(seed)[j] % Pow2(LOG2Q)
    /\ Encoded =>
          \A i \in 1..NUM_ROWS : \A j \in 1..LATTICE_DIM :
              /\ Decrypt(ck, h[i][j]) \in 0..(Pow2(LOG2Q) - 1)
              /\ Decrypt(ck, h[i][j]) = MatrixWords[i][j] % Pow2(LOG2Q)

\* an encoding and a key for which drawn words of q or more were reduced
C8_Witness ==
    /\ pc = "encoded"
    /\ \E i \in 1..NUM_ROWS, j \in 1..LATTICE_DIM : MatrixWords[i][j] >= Pow2(LOG2Q)
    /\ \E seed \in 1..NumPrfSeeds :
          /\ pk = generate_prf_key(seed)
          /\ \E j \in 1..LATTICE_DIM : KeyWords(seed)[j] >= Pow2(LOG2Q)

\* C6: the PRF key generate_prf_key produces and eval consumes is a vector
\* of LATTICE_DIM plaintext ring elements, the scalar operands of
\* vec_mul_vec.
C6_KeyIsPlaintextVector ==
    pk # <<>> =>
        /\ Len(pk) = LATTICE_DIM
        /\ \A j \in 1..Len(pk) : pk[j].type = "BigInt"

----------------------------------------------------------------------------
(* Claims checked under SpecPar.                                            *)

\* C9: whatever the order in which the row workers of eval and the
\* ciphertext workers of decrypt finish, element i of eval's result belongs
\* to row i of h and chunk i of decrypt's output to ciphertext i.
C9_AssembledByIndex ==
    /\ pc = "par_mul" =>
          \A i \in done : Decrypt(ck, v[i]) = ClearDot(i) % Pow2(LOG2Q)
    /\ pc = "par_shift" =>
          \A i \in done : Decrypt(ck, y[i]) = ClearRounded(i)
    /\ pc \in {"par_dec", "decrypted"} =>
          \A i \in AllRows : Decrypt(ck, y[i]) = ClearRounded(i)
    /\ pc = "par_dec" =>
          \A i \in done : \A b \in 1..P_BYTES :
              chunks[i][b] = ByteOf(Decrypt(ck, y[i]), b)
    /\ pc = "decrypted" =>
          \A i \in AllRows : \A b \in 1..P_BYTES :
              out[(i - 1) * P_BYTES + b] = ByteOf(Decrypt(ck, y[i]), b)

\* decrypt's workers finishing out of order (the last before the first) on
\* an evaluation whose rows differ, eval's workers having finished
C9_Witness ==
    /\ pc = "par_dec"
    /\ NUM_ROWS \in done
    /\ 1 \notin done
    /\ \E i, j \in AllRows : ClearRounded(i) # ClearRounded(j)

----------------------------------------------------------------------------
(* Claims checked under SpecApi.                                            *)

\* the pairs vec_mul_vec forms of the first row and the vector
Paired == Min(Len(h[1]), Len(pk))

\* C10: vec_mul_vec on a row of length m and a vector of length k pairs the
\* entries by position and sums over the first min(m, k) pairs only, without
\* reporting a mismatch; it panics exactly when min(m, k) = 0.
C10_ZipTruncates ==
    /\ fail = "vec_mul_vec" => Paired = 0
    /\ pc = "vmv_done" =>
          /\ Paired > 0
          /\ Decrypt(ck, v[1]) =
                Dot(PlainRow(ck, h[1]), KeyValues(pk), Paired) % Pow2(LOG2Q)


\* a row longer than the vector, multiplied without a failure
C10_Witness ==
    /\ pc = "vmv_done"
    /\ Len(h[1]) > Len(pk)
    /\ Len(pk) > 0

\* C7: encode, eval and decrypt return their complete result or fail; decrypt
\* on ciphertexts whose bytes do not total OUT_LEN fails and returns nothing.
C7_AllOrNothing ==
    /\ pc = "api_encoded" =>
          /\ Len(h) = NUM_ROWS
          /\ \A i \in 1..Len(h) : Len(h[i]) = LATTICE_DIM
    /\ pc = "evaluated" =>
          /\ Len(v) = Len(h)
          /\ Len(y) = Len(h)
          /\ \A i \in 1..Len(h) : Min(Len(h[i]), Len(pk)) > 0
    /\ fail = "eval" =>
          /\ v = <<>>
          /\ \E i \in 1..Len(h) : Min(Len(h[i]), Len(pk)) = 0
    /\ pc = "decrypted" =>
          /\ Len(y) * P_BYTES = OUT_LEN
          /\ Len(out) = OUT_LEN
          /\ \A i \in 1..Len(y) : \A b \in 1..P_BYTES :
                out[(i - 1) * P_BYTES + b] = ByteOf(Decrypt(ck, y[i]), b)
    /\ fail = "decrypt" =>
          /\ Len(y) * P_BYTES # OUT_LEN
          /\ out = <<>>

\* decrypt failing on a vector one ciphertext short
C7_Witness ==
    /\ fail = "decrypt"
    /\ pc = "failed"
    /\ Len(y) = NUM_ROWS - 1

====
